---- MODULE Spec2Model ----
(***************************************************************************)
(* Chess Arena (chessfen-ai-studio/game/views.py): the HTTP handlers, the  *)
(* engine abstraction layer and the Stockfish helpers, as a state machine. *)
(* The only state that outlives a request is the session; the request, the *)
(* answers of the engine subprocess and of the random module, and what the *)
(* handler did are recorded per request.  python-chess and the UCI engine  *)
(* are external: positions come from a small table, the engine's answers   *)
(* are chosen nondeterministically.                                        *)
(***************************************************************************)
EXTENDS Integers, Sequences, FiniteSets, TLC

VARIABLES session, request, response, env, trace, lastSaved

vars == <<session, request, response, env, trace, lastSaved>>

(***************************************************************************)
(* Bounds of the model.                                                    *)
(***************************************************************************)
\* longest list of engine lines (multipv infos) the engine answers with
MaxLines == 2
\* longest 'history' list in a save_game body
MaxHistory == 1

(***************************************************************************)
(* Program constants.                                                      *)
(***************************************************************************)
MATE_SCORE == 100000
RANDOM_LIMIT == 50
MULTIPV_COACH == 3
MULTIPV_LEGAL == 20

(***************************************************************************)
(* Python / JSON values, tagged.                                           *)
(***************************************************************************)
None == [t |-> "None"]
Str(s) == [t |-> "str", v |-> s]
Num(i) == [t |-> "int", v |-> i]
List(q) == [t |-> "list", v |-> q]
Dict(d) == [t |-> "dict", v |-> d]
Bool(b) == [t |-> "bool", v |-> b]

\* Python truthiness (bool(x)).
Truthy(x) ==
    CASE x.t = "None" -> FALSE
      [] x.t = "str" -> x.v # ""
      [] x.t = "int" -> x.v # 0
      [] x.t = "list" -> Len(x.v) > 0
      [] x.t = "dict" -> DOMAIN x.v # {}
      [] x.t = "bool" -> x.v
      [] OTHER -> TRUE

\* dict.get(key, default)
dict_get(d, key, default) == IF key \in DOMAIN d THEN d[key] ELSE default

\* The dicts over some of the keys of a record of value sets.
DictsOver(fields) ==
    UNION {[ks -> UNION {fields[k] : k \in ks}] : ks \in SUBSET DOMAIN fields}

WellTyped(d, fields) == \A k \in DOMAIN d : d[k] \in fields[k]

\* json.loads(request.body): the value, or the exception it raises.
\* A request body is [kind, obj]: bytes that are not UTF-8, text that is
\* not JSON, a JSON value that is no object, or a JSON object.
json_loads(body) ==
    CASE body.kind = "undecodable" -> [exc |-> "UnicodeDecodeError", val |-> None]
      [] body.kind = "malformed" -> [exc |-> "JSONDecodeError", val |-> None]
      [] body.kind = "array" -> [exc |-> "", val |-> List(<<>>)]
      [] OTHER -> [exc |-> "", val |-> Dict(body.obj)]

(***************************************************************************)
(* python-chess, by table: three valid positions.  The model does not play *)
(* chess: the table gives what the views read of a position (side to move, *)
(* legal moves in generation order), and the engine's scores below are not *)
(* tied to what is on the board.                                           *)
(***************************************************************************)
WHITE == "white"
BLACK == "black"
Opp(c) == IF c = WHITE THEN BLACK ELSE WHITE

FenWhite == "7k/8/8/8/8/8/8/K7 w - - 0 1"
FenBlack == "k7/8/P7/8/8/8/8/7K b - - 0 1"
FenMated == "6k1/8/8/8/8/8/5PPP/4r1K1 w - - 0 1"
FenEmpty == ""
FenBad == "not a fen"

ValidFens == {FenWhite, FenBlack, FenMated}

Mv(f, to, san, cap, chk) ==
    [from |-> f, to |-> to, san |-> san, capture |-> cap, check |-> chk]

\* mv.uci()
uci(mv) == mv.from \o mv.to

FenTurn(fen) == IF fen = FenBlack THEN BLACK ELSE WHITE

\* list(chess.Board(fen).legal_moves), in generation order
FenLegal(fen) ==
    CASE fen = FenWhite -> << Mv("a1", "b2", "Kb2", FALSE, FALSE),
                              Mv("a1", "a2", "Ka2", FALSE, FALSE),
                              Mv("a1", "b1", "Kb1", FALSE, FALSE) >>
      [] fen = FenBlack -> << Mv("a8", "b8", "Kb8", FALSE, FALSE),
                              Mv("a8", "a7", "Ka7", FALSE, FALSE) >>
      [] OTHER -> << >>

\* the legal moves of the side that answers, after one move from fen
FenReplies(fen) ==
    CASE fen = FenWhite -> << Mv("h8", "g8", "Kg8", FALSE, FALSE),
                              Mv("h8", "h7", "Kh7", FALSE, FALSE),
                              Mv("h8", "g7", "Kg7", FALSE, FALSE) >>
      [] fen = FenBlack -> << Mv("h1", "h2", "Kh2", FALSE, FALSE),
                              Mv("h1", "g2", "Kg2", FALSE, FALSE),
                              Mv("h1", "g1", "Kg1", FALSE, FALSE) >>
      [] OTHER -> << >>

\* chess.Board(fen): raises ValueError unless fen is a valid position
board_ok(fen) == fen.t = "str" /\ fen.v \in ValidFens

Board(fenstr) == [fen |-> fenstr, stack |-> << >>, turn |-> FenTurn(fenstr)]

\* board.legal_moves, read from the board as it is now
legal_moves_of(board) ==
    CASE board.stack = << >> -> FenLegal(board.fen)
      [] Len(board.stack) = 1 -> FenReplies(board.fen)
      [] OTHER -> << >>

board_push(board, mv) ==
    [board EXCEPT !.stack = Append(@, mv), !.turn = Opp(@)]

\* a faulty variant of board_pop: the move is left on the board
board_pop_forgotten(board) == board

board_pop(board) ==
    [board EXCEPT !.stack = SubSeq(@, 1, Len(@) - 1), !.turn = Opp(@)]

\* the coordinate strings chess.Move.from_uci accepts
UciA1A8 == "a1a8"
UciJunk == "zz"
from_uci_ok(s) == s # UciJunk /\ s # ""

SeqToSet(q) == {q[i] : i \in 1..Len(q)}

\* a faulty variant of is_legal: the membership test is dropped
is_legal_always(board, ucistr) == TRUE

\* move in board.legal_moves, for a move given in coordinate form
is_legal(board, ucistr) == \E m \in SeqToSet(legal_moves_of(board)) : uci(m) = ucistr

(***************************************************************************)
(* chess.engine scores: Cp(x), Mate(n), MateGiven; PovScore(relative, turn) *)
(***************************************************************************)
Cp(x) == [k |-> "cp", n |-> x]
Mate(n) == [k |-> "mate", n |-> n]
MateGiven == [k |-> "mategiven", n |-> 0]

\* Score.__neg__
score_neg(s) ==
    CASE s.k = "cp" -> Cp(-s.n)
      [] s.k = "mate" -> IF s.n = 0 THEN MateGiven ELSE Mate(-s.n)
      [] OTHER -> Mate(0)

\* Score.score(mate_score=...)
score_score(s, mate_score) ==
    CASE s.k = "cp" -> Num(s.n)
      [] s.k = "mate" -> IF s.n > 0 THEN Num(mate_score - s.n) ELSE Num(-mate_score - s.n)
      [] OTHER -> Num(mate_score)

\* Score.mate()
score_mate(s) == IF s.k = "cp" THEN None ELSE Num(s.n)

PovScore(rel, turn) == [t |-> "PovScore", relative |-> rel, turn |-> turn]

\* PovScore.pov(color)
pov(ps, color) == IF ps.turn = color THEN ps.relative ELSE score_neg(ps.relative)

(***************************************************************************)
(* The engine subprocess and the random module: what they answer in one    *)
(* request.  open: popen_uci succeeds; raises: engine.analyse raises;      *)
(* infos: the info dicts analyse returns (one per multipv line, each with  *)
(* a pv of at most one move here and an optional score from the point of   *)
(* view of the side to move of the analysed board); quit_raises:           *)
(* engine.quit raises; choice: the index random.choice picks; rand: the    *)
(* values random.randint returns.                                          *)
(***************************************************************************)
EngineScores == {Cp(-30), Cp(35), Mate(-1), Mate(0), Mate(2)}

RandomInts == {-RANDOM_LIMIT, 0, RANDOM_LIMIT}

\* a is at least as good as b for the side to move (UCI: a mate given beats
\* any centipawn score, which beats being mated; a faster win and a slower
\* loss are better)
EngineAtLeast(a, b) ==
    CASE a.k = "mate" /\ a.n > 0 -> (b.k = "mate" /\ b.n > 0) => a.n <= b.n
      [] a.k = "cp" -> /\ ~(b.k = "mate" /\ b.n > 0)
                       /\ (b.k = "cp" => a.n >= b.n)
      [] OTHER -> b.k = "mate" /\ b.n <= 0 /\ a.n <= b.n

\* multipv lines are numbered best first
EngineRanked(infos) ==
    \A i, j \in 1..Len(infos) :
        (i < j /\ infos[i].score # None /\ infos[j].score # None)
            => EngineAtLeast(infos[i].score.relative, infos[j].score.relative)

\* the lines name distinct root moves
DistinctPv(infos) ==
    \A i, j \in 1..Len(infos) :
        (i < j /\ infos[i].pv # << >>) => infos[i].pv # infos[j].pv

InfosOf(board) ==
    [pv : {<< >>} \cup {<<m>> : m \in SeqToSet(legal_moves_of(board))},
     score : {None} \cup {PovScore(s, board.turn) : s \in EngineScores}]

\* what engine.analyse(board, multipv=n) may return, as a list
AnalyseLists(board, n) ==
    {q \in UNION {[1..k -> InfosOf(board)] : k \in 0..n} :
        EngineRanked(q) /\ DistinctPv(q)}

NoEnv ==
    [open |-> FALSE, raises |-> FALSE, infos |-> << >>, quit_raises |-> FALSE,
     choice |-> 1, rand |-> << >>]

(***************************************************************************)
(* The Stockfish helpers.  Each returns its result with what it did with   *)
(* the subprocess: opened (popen_uci succeeded), quits (calls of quit),     *)
(***************************************************************************)
\* also: opens (calls of popen_uci) and analysed (calls of engine.analyse).
NoEngine == [opens |-> 0, opened |-> FALSE, quits |-> 0, analysed |-> 0]
\* a faulty variant of NotOpened: popen_uci is tried again after it failed
NotOpenedRetried(r) ==
    [ret |-> r, eng |-> [opens |-> 2, opened |-> FALSE, quits |-> 0, analysed |-> 0]]

NotOpened(r) == [ret |-> r, eng |-> [opens |-> 1, opened |-> FALSE, quits |-> 0, analysed |-> 0]]

\* a faulty variant of Closed: the helper returns without calling quit
Leaked(r, n) == [ret |-> r, eng |-> [opens |-> 1, opened |-> TRUE, quits |-> 0, analysed |-> n]]

\* quit is called once: in the except clause, where what it raises is
\* swallowed, or in the try block when it does not raise
Closed(r, n) == [ret |-> r, eng |-> [opens |-> 1, opened |-> TRUE, quits |-> 1, analysed |-> n]]

\* engine.quit() in the try block, before `return r`: when it raises, the
\* except clause calls quit again and returns the empty result
QuitThenReturn(e, r, empty, n) ==
    IF e.quit_raises
    THEN [ret |-> empty, eng |-> [opens |-> 1, opened |-> TRUE, quits |-> 2, analysed |-> n]]
    ELSE Closed(r, n)

_open_stockfish(e) == e.open

_stockfish_best_move(fen, e) ==
    IF ~_open_stockfish(e) THEN NotOpened([best |-> None, score |-> None])
    ELSE IF ~board_ok(fen) THEN Closed([best |-> None, score |-> None], 0)
    ELSE IF e.raises \/ e.infos[1].pv = << >>
         THEN Closed([best |-> None, score |-> None], 1)
         ELSE QuitThenReturn(e, [best |-> [t |-> "Move", v |-> e.infos[1].pv[1]],
                                 score |-> e.infos[1].score],
                             [best |-> None, score |-> None], 1)

\* a faulty variant of entry_score: the score as White sees it
entry_score_white(board, info) ==
    IF Truthy(info.score) THEN score_score(pov(info.score, WHITE), MATE_SCORE) ELSE None

\* info.get("score").pov(board.turn).score(mate_score=100000) if info.get("score") else None
entry_score(board, info) ==
    IF Truthy(info.score) THEN score_score(pov(info.score, board.turn), MATE_SCORE) ELSE None

\* the dict built for one info of _stockfish_top_moves
top_entry(board, info) ==
    LET mv == info.pv[1] IN
    [uci |-> Str(uci(mv)),
     san |-> Str(mv.san),
     score |-> entry_score(board, info),
     mate |-> IF Truthy(info.score)
              THEN score_mate(pov(info.score, board.turn)) ELSE None,
     from |-> Str(mv.from),
     to |-> Str(mv.to)]

RECURSIVE top_entries(_, _)
top_entries(board, infos) ==
    IF infos = << >> THEN << >>
    ELSE IF Head(infos).pv = << >>
         THEN top_entries(board, Tail(infos))
         ELSE <<top_entry(board, Head(infos))>> \o top_entries(board, Tail(infos))

_stockfish_top_moves(fen, multipv, e) ==
    IF ~_open_stockfish(e) THEN NotOpened(<< >>)
    ELSE IF ~board_ok(fen) THEN Closed(<< >>, 0)
    ELSE IF e.raises THEN Closed(<< >>, 1)
    ELSE QuitThenReturn(e, top_entries(Board(fen.v), e.infos), << >>, 1)

\* a faulty variant of eval_result: the mate distance is not negated
eval_result_unnegated(score, board) ==
    IF Truthy(score)
    THEN [score_cp |-> Num(-score_score(pov(score, board.turn), MATE_SCORE).v),
          mate |-> score_mate(pov(score, board.turn))]
    ELSE [score_cp |-> None, mate |-> None]

\* (score_cp, mate) of _stockfish_eval_move, from the score of the position
\* after the move, seen by the side that moved
eval_result(score, board) ==
    IF Truthy(score)
    THEN LET m == score_mate(pov(score, board.turn)) IN
         [score_cp |-> Num(-score_score(pov(score, board.turn), MATE_SCORE).v),
          mate |-> IF m # None THEN Num(-m.v) ELSE m]
    ELSE [score_cp |-> None, mate |-> None]

_stockfish_eval_move(fen, move_uci, e) ==
    IF ~_open_stockfish(e) THEN NotOpened([score_cp |-> None, mate |-> None])
    ELSE IF ~board_ok(fen) \/ ~from_uci_ok(move_uci.v)
         THEN Closed([score_cp |-> None, mate |-> None], 0)
    ELSE IF ~is_legal(Board(fen.v), move_uci.v)
         THEN QuitThenReturn(e, [score_cp |-> None, mate |-> None],
                             [score_cp |-> None, mate |-> None], 0)
    ELSE IF e.raises THEN Closed([score_cp |-> None, mate |-> None], 1)
    ELSE LET board == board_push(Board(fen.v), move_uci.v) IN
         QuitThenReturn(e, eval_result(e.infos[1].score, board),
                        [score_cp |-> None, mate |-> None], 1)

(***************************************************************************)
(* The engine abstraction layer.  exc names the exception that escapes.    *)
(***************************************************************************)
Min(a, b) == IF a < b THEN a ELSE b

\* the dict the 'random' branch builds for the i-th legal move
random_entry(mv, r) ==
    [uci |-> Str(uci(mv)), san |-> Str(mv.san), score |-> Num(r), mate |-> None,
     from |-> Str(mv.from), to |-> Str(mv.to)]

get_engine_analysis(fen, engine_type, multipv, e) ==
    IF engine_type = Str("stockfish")
    THEN [exc |-> ""] @@ _stockfish_top_moves(fen, multipv, e)
    ELSE IF engine_type = Str("random")
    THEN IF ~board_ok(fen)
         THEN [exc |-> "ValueError", ret |-> << >>, eng |-> NoEngine]
         ELSE LET legal == FenLegal(fen.v) IN
              [exc |-> "",
               ret |-> [i \in 1..Min(multipv, Len(legal)) |-> random_entry(legal[i], e.rand[i])],
               eng |-> NoEngine]
    ELSE [exc |-> ""] @@ _stockfish_top_moves(fen, multipv, e)

get_engine_best_move(fen, engine_type, e) ==
    IF engine_type = Str("stockfish")
    THEN LET r == _stockfish_best_move(fen, e) IN
         IF Truthy(r.ret.best)
         THEN [exc |-> "", eng |-> r.eng,
               ret |-> [move |-> Str(uci(r.ret.best.v)),
                        score_cp |-> IF Truthy(r.ret.score)
                                     THEN score_score(pov(r.ret.score, Board(fen.v).turn), MATE_SCORE)
                                     ELSE None]]
         ELSE [exc |-> "", eng |-> r.eng, ret |-> [move |-> None, score_cp |-> None]]
    ELSE IF engine_type = Str("random")
    THEN IF ~board_ok(fen)
         THEN [exc |-> "ValueError", eng |-> NoEngine, ret |-> [move |-> None, score_cp |-> None]]
         ELSE LET legal == FenLegal(fen.v) IN
              IF Len(legal) > 0
              THEN [exc |-> "", eng |-> NoEngine,
                    ret |-> [move |-> Str(uci(legal[e.choice])), score_cp |-> None]]
              ELSE [exc |-> "", eng |-> NoEngine, ret |-> [move |-> None, score_cp |-> None]]
    ELSE LET r == _stockfish_best_move(fen, e) IN
         IF Truthy(r.ret.best)
         THEN [exc |-> "", eng |-> r.eng,
               ret |-> [move |-> Str(uci(r.ret.best.v)), score_cp |-> None]]
         ELSE [exc |-> "", eng |-> r.eng, ret |-> [move |-> None, score_cp |-> None]]

get_single_move_eval(fen, move_uci, engine_type, e) ==
    IF engine_type = Str("stockfish")
    THEN _stockfish_eval_move(fen, move_uci, e)
    ELSE _stockfish_eval_move(fen, move_uci, e)

(***************************************************************************)
(* The views.  Each takes the request body and the environment's answers   *)
(* and returns the response with what the handler did: eng (its use of the *)
(* engine), ret (what the abstraction layer returned), boards (the board   *)
(* at the start of each iteration of legal_moves' loop).                   *)
(***************************************************************************)
JsonResponse(d, code) == [code |-> code, body |-> d]

\* what Django answers when a view lets an exception escape
ServerError == [code |-> 500, body |-> [html |-> Str("Server Error (500)")]]

\* require_http_methods: the answer to another method
NotAllowed == [code |-> 405, body |-> [html |-> Str("")]]

Out(resp, eng, ret, boards) ==
    [response |-> resp, trace |-> [eng |-> eng, ret |-> ret, boards |-> boards]]

Plain(resp) == Out(resp, NoEngine, None, << >>)

InvalidJson == JsonResponse([error |-> Str("Invalid JSON")], 400)

\* except Exception as exc: JsonResponse({'error': str(exc)}, status=500)
Caught(exc) == JsonResponse([error |-> Str(exc)], 500)

index == Plain([code |-> 200, body |-> [html |-> Str("game/index.html")]])

ai_move(body, e) ==
    LET j == json_loads(body) IN
    IF j.exc = "JSONDecodeError" THEN Plain(InvalidJson)
    ELSE IF j.exc # "" THEN Plain(Caught(j.exc))
    ELSE IF j.val.t # "dict" THEN Plain(Caught("AttributeError"))
    ELSE LET data == j.val.v
             fen == dict_get(data, "fen", Str(""))
             engine_choice == dict_get(data, "engine", Str("stockfish"))
             r == get_engine_best_move(fen, engine_choice, e)
             ok(move) == JsonResponse([status |-> Str("ok"), move |-> move,
                                       engine |-> engine_choice,
                                       score_cp |-> r.ret.score_cp], 200)
         IN  IF r.exc # "" THEN Out(Caught(r.exc), r.eng, None, << >>)
             ELSE IF Truthy(r.ret.move) THEN Out(ok(r.ret.move), r.eng, r.ret, << >>)
             ELSE IF ~board_ok(fen) THEN Out(Caught("ValueError"), r.eng, r.ret, << >>)
             ELSE LET legal == FenLegal(fen.v) IN
                  IF Len(legal) > 0
                  THEN Out(ok(Str(uci(legal[e.choice]))), r.eng, r.ret, << >>)
                  ELSE Out(JsonResponse([status |-> Str("error"),
                                         message |-> Str("No legal move")], 400),
                           r.eng, r.ret, << >>)

\* int(x) of coach_analysis' depth: raises on text that is no number
int_ok(x) == x.t = "int"

dialog_map(persona) ==
    CASE persona = Str("aggressive") ->
             Str("Hit fast and hard. Open lines, seek tactics, and keep initiative.")
      [] persona = Str("defensive") ->
             Str("Stabilize the position. Cover weaknesses, trade down pressure, and neutralize threats.")
      [] OTHER ->
             Str("Healthy development and central control. Improve pieces, avoid unnecessary risks.")

FirstOrNone(q) == IF Len(q) > 0 THEN q[1] ELSE None

coach_analysis(body, e) ==
    LET j == json_loads(body) IN
    IF j.exc = "JSONDecodeError" THEN Plain(InvalidJson)
    ELSE IF j.exc # "" \/ j.val.t # "dict" THEN Plain(ServerError)
    ELSE LET data == j.val.v
             fen == dict_get(data, "fen", Str(""))
             persona == dict_get(data, "persona", Str("balanced"))
             depth == dict_get(data, "depth", Num(10))
         IN  IF ~int_ok(depth) \/ ~board_ok(fen) THEN Plain(ServerError)
             ELSE LET top == _stockfish_top_moves(fen, MULTIPV_COACH, e)
                      legal == FenLegal(fen.v)
                      legal_san == [i \in 1..Min(3, Len(legal)) |-> Str(legal[i].san)]
                      recommended == [i \in 1..Len(top.ret) |->
                                         [san |-> top.ret[i].san, uci |-> top.ret[i].uci,
                                          score_cp |-> top.ret[i].score,
                                          mate |-> top.ret[i].mate]]
                  IN  IF Len(top.ret) = 0
                      THEN Out(JsonResponse(
                                 [status |-> Str("fallback"),
                                  message |-> Str("Stockfish not available; fallback suggestions."),
                                  evaluation |-> None,
                                  best_move |-> FirstOrNone(legal_san),
                                  recommended |-> [i \in 1..Len(legal_san) |-> [san |-> legal_san[i]]],
                                  dialog |-> Str("Engine unavailable. Playing it safe; develop pieces and control the center."),
                                  persona |-> persona], 200),
                               top.eng, top.ret, << >>)
                      ELSE Out(JsonResponse(
                                 [status |-> Str("ok"),
                                  evaluation |-> top.ret[1].score,
                                  best_move |-> FirstOrNone(recommended),
                                  recommended |-> recommended,
                                  dialog |-> dialog_map(persona),
                                  persona |-> persona], 200),
                               top.eng, top.ret, << >>)

evaluate_position(body, e) ==
    LET j == json_loads(body) IN
    IF j.exc = "JSONDecodeError" THEN Plain(InvalidJson)
    ELSE IF j.exc # "" \/ j.val.t # "dict" THEN Plain(ServerError)
    ELSE LET data == j.val.v
             fen == dict_get(data, "fen", Str(""))
             r == _stockfish_best_move(fen, e)
         IN  Out(JsonResponse(
                   [status |-> Str("ok"),
                    evaluation |-> IF Truthy(r.ret.score)
                                   THEN score_score(pov(r.ret.score, WHITE), MATE_SCORE)
                                   ELSE None,
                    win_probability |-> None,
                    received_fen |-> fen], 200),
                 r.eng, r.ret, << >>)

\* a faulty variant of save_store: the history of the body is not stored
save_store_no_history(sess, data) ==
    ("game_state" :> Dict([fen |-> dict_get(data, "fen", None),
                           pgn |-> dict_get(data, "pgn", None),
                           history |-> List(<< >>)])) @@ sess

\* the session as it is after save_game's assignment
save_store(sess, data) ==
    ("game_state" :> Dict([fen |-> dict_get(data, "fen", None),
                           pgn |-> dict_get(data, "pgn", None),
                           history |-> dict_get(data, "history", List(<< >>))])) @@ sess

save_game(body, sess) ==
    LET j == json_loads(body) IN
    IF j.exc = "JSONDecodeError" THEN [session |-> sess] @@ Plain(InvalidJson)
    ELSE IF j.exc # "" \/ j.val.t # "dict" THEN [session |-> sess] @@ Plain(ServerError)
    ELSE [session |-> save_store(sess, j.val.v)]
             @@ Plain(JsonResponse([status |-> Str("saved")], 200))

\* a faulty variant of load_game: a game whose position is null counts as not stored
load_game_needs_fen(sess) ==
    LET game_state == dict_get(sess, "game_state", None) IN
    IF Truthy(game_state) /\ Truthy(game_state.v.fen)
    THEN Plain(JsonResponse([status |-> Str("found"), game_state |-> game_state], 200))
    ELSE Plain(JsonResponse([status |-> Str("not_found"), game_state |-> None], 200))

load_game(sess) ==
    LET game_state == dict_get(sess, "game_state", None) IN
    IF Truthy(game_state)
    THEN Plain(JsonResponse([status |-> Str("found"), game_state |-> game_state], 200))
    ELSE Plain(JsonResponse([status |-> Str("not_found"), game_state |-> None], 200))

\* the dict legal_moves builds for one move
legal_entry(mv, is_capture, is_check) ==
    [from |-> Str(mv.from), to |-> Str(mv.to), san |-> Str(mv.san), uci |-> Str(uci(mv)),
     is_capture |-> Bool(is_capture), is_check |-> Bool(is_check)]

\* for mv in board.legal_moves: ... board.push(mv); board.is_check(); board.pop()
\* The generator reads the board when it is asked for its i-th move.
RECURSIVE legal_loop(_, _, _, _)
legal_loop(board, i, moves, boards) ==
    LET gen == legal_moves_of(board) IN
    IF i > Len(gen) THEN [moves |-> moves, boards |-> boards]
    ELSE LET mv == gen[i]
             pushed == board_push(board, mv)
             is_check == mv.check
             popped == board_pop(pushed)
         IN  legal_loop(popped, i + 1,
                        Append(moves, legal_entry(mv, mv.capture, is_check)),
                        Append(boards, board))

legal_moves(body, e) ==
    LET j == json_loads(body) IN
    IF j.exc = "JSONDecodeError" THEN Plain(InvalidJson)
    ELSE IF j.exc # "" \/ j.val.t # "dict" THEN Plain(ServerError)
    ELSE LET data == j.val.v
             fen == dict_get(data, "fen", None)
             engine_type == dict_get(data, "engine", Str("stockfish"))
         IN  IF ~Truthy(fen) THEN Plain(JsonResponse([error |-> Str("FEN is required")], 400))
             ELSE IF ~board_ok(fen) THEN Plain(JsonResponse([error |-> Str("Invalid FEN")], 400))
             ELSE LET top == get_engine_analysis(fen, engine_type, MULTIPV_LEGAL, e)
                      loop == legal_loop(Board(fen.v), 1, << >>, << >>)
                  IN  IF top.exc # "" THEN Out(ServerError, top.eng, None, << >>)
                      ELSE Out(JsonResponse([status |-> Str("ok"),
                                             legal_moves |-> loop.moves,
                                             top_moves |-> top.ret], 200),
                               top.eng, top.ret, loop.boards)

evaluate_move(body, e) ==
    LET j == json_loads(body) IN
    IF j.exc = "JSONDecodeError" THEN Plain(InvalidJson)
    ELSE IF j.exc # "" THEN Plain(Caught(j.exc))
    ELSE IF j.val.t # "dict" THEN Plain(Caught("AttributeError"))
    ELSE LET data == j.val.v
             fen == dict_get(data, "fen", None)
             move_uci == dict_get(data, "move_uci", None)
             engine_type == dict_get(data, "engine", Str("stockfish"))
         IN  IF ~Truthy(fen) \/ ~Truthy(move_uci)
             THEN Plain(JsonResponse([error |-> Str("FEN and move_uci required")], 400))
             ELSE LET r == get_single_move_eval(fen, move_uci, engine_type, e) IN
                  Out(JsonResponse([status |-> Str("ok"), score_cp |-> r.ret.score_cp,
                                    mate |-> r.ret.mate, move_uci |-> move_uci], 200),
                      r.eng, r.ret, << >>)

(***************************************************************************)
(* The requests the model sends.                                           *)
(***************************************************************************)
EmptyDict == [k \in {} |-> None]

ObjectsOver(fields) == {d \in DictsOver(fields) : WellTyped(d, fields)}

RawBodies == {[kind |-> k, obj |-> EmptyDict] : k \in {"undecodable", "malformed", "array"}}

BodiesOver(fields) ==
    RawBodies \cup {[kind |-> "object", obj |-> d] : d \in ObjectsOver(fields)}

FenValues == {Str(FenEmpty), Str(FenBad), Str(FenWhite), Str(FenBlack), Str(FenMated)}
EngineNames == {Str("stockfish"), Str("random"), Str("lc0")}
UciValues == {Str("a1b2"), Str("a8a7"), Str(UciA1A8), Str(UciJunk)}

HistoryLists == UNION {[1..n -> {Str("a1b2")}] : n \in 0..MaxHistory}

AiMoveBodies == BodiesOver([fen |-> FenValues, engine |-> EngineNames])
CoachBodies ==
    BodiesOver([fen |-> FenValues, persona |-> {Str("aggressive")}, depth |-> {Str("deep")}])
EvaluateBodies == BodiesOver([fen |-> FenValues])
EvaluateMoveBodies ==
    BodiesOver([fen |-> FenValues, move_uci |-> UciValues, engine |-> EngineNames])
LegalMovesBodies == BodiesOver([fen |-> FenValues, engine |-> EngineNames])
SaveBodies ==
    BodiesOver([fen |-> {None, Str(FenWhite)}, pgn |-> {Str("1. Kb2")},
                history |-> {List(q) : q \in HistoryLists}])

\* the field of a body, as the view reads it
Field(body, key, default) ==
    IF body.kind = "object" THEN dict_get(body.obj, key, default) ELSE default

(***************************************************************************)
(* What the engine and the random module may answer to a request.          *)
(***************************************************************************)
EngineDown == NoEnv
EngineUp == [NoEnv EXCEPT !.open = TRUE]
EngineRaises == [NoEnv EXCEPT !.open = TRUE, !.raises = TRUE]

\* the answers es, each with engine.quit returning and with engine.quit raising
WithQuit(es) == es \cup {[e EXCEPT !.quit_raises = TRUE] : e \in es}

\* engine.analyse is never reached
EnvsIdle == {EngineDown} \cup WithQuit({EngineUp})

\* analyse(board, multipv=1) returns one info
EnvsSingle(board) ==
    {EngineDown}
        \cup WithQuit({EngineRaises}
                 \cup {[EngineUp EXCEPT !.infos = q] :
                          q \in {x \in AnalyseLists(board, 1) : Len(x) = 1}})

EnvsMulti(board, multipv) ==
    {EngineDown}
        \cup WithQuit({EngineRaises}
                 \cup {[EngineUp EXCEPT !.infos = q] :
                          q \in AnalyseLists(board, Min(multipv, MaxLines))})

AiMoveEnvs(body) ==
    LET fen == Field(body, "fen", Str(""))
        engine == Field(body, "engine", Str("stockfish"))
        legal == IF board_ok(fen) THEN FenLegal(fen.v) ELSE << >>
        base == IF body.kind # "object" THEN {EngineDown}
                ELSE IF engine = Str("random") THEN {EngineDown}
                ELSE IF board_ok(fen) THEN EnvsSingle(Board(fen.v))
                ELSE EnvsIdle
        picks(e) == IF Len(legal) > 0 /\ (engine = Str("random")
                         \/ ~Truthy(get_engine_best_move(fen, engine, e).ret.move))
                    THEN 1..Len(legal) ELSE {1}
    IN  UNION {{[e EXCEPT !.choice = c] : c \in picks(e)} : e \in base}

CoachEnvs(body) ==
    LET fen == Field(body, "fen", Str("")) IN
    IF body.kind = "object" /\ int_ok(Field(body, "depth", Num(10))) /\ board_ok(fen)
    THEN EnvsMulti(Board(fen.v), MULTIPV_COACH)
    ELSE {EngineDown}

EvaluateEnvs(body) ==
    LET fen == Field(body, "fen", Str("")) IN
    IF body.kind # "object" THEN {EngineDown}
    ELSE IF board_ok(fen) THEN EnvsSingle(Board(fen.v))
    ELSE EnvsIdle

EvaluateMoveEnvs(body) ==
    LET fen == Field(body, "fen", None)
        move_uci == Field(body, "move_uci", None)
    IN  IF body.kind # "object" \/ ~Truthy(fen) \/ ~Truthy(move_uci) THEN {EngineDown}
        ELSE IF board_ok(fen) /\ from_uci_ok(move_uci.v) /\ is_legal(Board(fen.v), move_uci.v)
        THEN EnvsSingle(board_push(Board(fen.v), move_uci.v))
        ELSE EnvsIdle

LegalMovesEnvs(body) ==
    LET fen == Field(body, "fen", None)
        engine == Field(body, "engine", Str("stockfish"))
    IN  IF body.kind # "object" \/ ~board_ok(fen) THEN {EngineDown}
        ELSE IF engine = Str("random")
        THEN {[EngineDown EXCEPT !.rand = r] : r \in [1..Len(FenLegal(fen.v)) -> RandomInts]}
        ELSE EnvsMulti(Board(fen.v), MULTIPV_LEGAL)

(***************************************************************************)
(* The state machine: one request in flight at a time in one session.      *)
(***************************************************************************)
NoRequest == [handler |-> "", method |-> "", body |-> [kind |-> "", obj |-> EmptyDict]]
NoResponse == [code |-> 0, body |-> [html |-> Str("")]]
NoTrace == [eng |-> NoEngine, ret |-> None, boards |-> << >>]
NoBody == [kind |-> "", obj |-> EmptyDict]

Methods == {"GET", "POST"}

Idle == request = NoRequest

Init ==
    /\ session = EmptyDict
    /\ request = NoRequest
    /\ response = NoResponse
    /\ env = NoEnv
    /\ trace = NoTrace
    /\ lastSaved = None

\* the view answered: its response and what it did, for the request and the
\* answers of the environment it was given
Answer(handler, method, body, e, out) ==
    /\ request' = [handler |-> handler, method |-> method, body |-> body]
    /\ env' = e
    /\ response' = out.response
    /\ trace' = out.trace

\* @require_http_methods([allowed]) around a view
Refused(handler, allowed) ==
    \E method \in Methods \ {allowed} :
        /\ Answer(handler, method, NoBody, NoEnv, Plain(NotAllowed))
        /\ UNCHANGED <<session, lastSaved>>

Index ==
    /\ Idle
    /\ \E method \in Methods : Answer("index", method, NoBody, NoEnv, index)
    /\ UNCHANGED <<session, lastSaved>>

AiMove ==
    /\ Idle
    /\ \/ Refused("ai_move", "POST")
       \/ \E body \in AiMoveBodies : \E e \in AiMoveEnvs(body) :
              /\ Answer("ai_move", "POST", body, e, ai_move(body, e))
              /\ UNCHANGED <<session, lastSaved>>

CoachAnalysis ==
    /\ Idle
    /\ \/ Refused("coach_analysis", "POST")
       \/ \E body \in CoachBodies : \E e \in CoachEnvs(body) :
              /\ Answer("coach_analysis", "POST", body, e, coach_analysis(body, e))
              /\ UNCHANGED <<session, lastSaved>>

EvaluatePosition ==
    /\ Idle
    /\ \/ Refused("evaluate_position", "POST")
       \/ \E body \in EvaluateBodies : \E e \in EvaluateEnvs(body) :
              /\ Answer("evaluate_position", "POST", body, e, evaluate_position(body, e))
              /\ UNCHANGED <<session, lastSaved>>

EvaluateMove ==
    /\ Idle
    /\ \/ Refused("evaluate_move", "POST")
       \/ \E body \in EvaluateMoveBodies : \E e \in EvaluateMoveEnvs(body) :
              /\ Answer("evaluate_move", "POST", body, e, evaluate_move(body, e))
              /\ UNCHANGED <<session, lastSaved>>

LegalMoves ==
    /\ Idle
    /\ \/ Refused("legal_moves", "POST")
       \/ \E body \in LegalMovesBodies : \E e \in LegalMovesEnvs(body) :
              /\ Answer("legal_moves", "POST", body, e, legal_moves(body, e))
              /\ UNCHANGED <<session, lastSaved>>

SaveGame ==
    /\ Idle
    /\ \/ Refused("save_game", "POST")
       \/ \E body \in SaveBodies :
              LET out == save_game(body, session) IN
              /\ Answer("save_game", "POST", body, NoEnv, out)
              /\ session' = out.session
              /\ lastSaved' = IF out.response.code = 200 THEN Dict(body.obj) ELSE lastSaved

LoadGame ==
    /\ Idle
    /\ \/ Refused("load_game", "GET")
       \/ /\ Answer("load_game", "GET", NoBody, NoEnv, load_game(session))
          /\ UNCHANGED <<session, lastSaved>>

\* the response is sent; nothing of the request but the session remains
RequestFinished ==
    /\ ~Idle
    /\ request' = NoRequest
    /\ response' = NoResponse
    /\ env' = NoEnv
    /\ trace' = NoTrace
    /\ UNCHANGED <<session, lastSaved>>

Next ==
    \/ Index
    \/ AiMove
    \/ CoachAnalysis
    \/ EvaluatePosition
    \/ EvaluateMove
    \/ LegalMoves
    \/ SaveGame
    \/ LoadGame
    \/ RequestFinished

Spec == Init /\ [][Next]_vars

(***************************************************************************)
(* Properties.                                                             *)
(***************************************************************************)
EngineHandlers ==
    {"ai_move", "coach_analysis", "evaluate_position", "evaluate_move", "legal_moves"}

\* the view of a POST endpoint ran on the request
Posted(h) == request.handler = h /\ request.method = "POST"

HasError(resp) == "error" \in DOMAIN resp.body

StatusOf(resp) == IF "status" \in DOMAIN resp.body THEN resp.body.status.v ELSE ""

UcisOf(q) == [i \in 1..Len(q) |-> uci(q[i])]

AllFields == {"fen", "pgn", "history"}

\* popen_uci failed, or engine.analyse was called and raised
EngineFailed ==
    /\ trace.eng.opens >= 1
    /\ \/ ~trace.eng.opened
       \/ trace.eng.analysed >= 1 /\ env.raises

\* C1: after a successful save_game whose body is an object with all of fen,
\* pgn and history, the next load_game answers 'found' with exactly these
\* three values as game_state.
C1_SaveThenLoad ==
    ( /\ request.handler = "load_game" /\ request.method = "GET"
      /\ lastSaved # None
      /\ DOMAIN lastSaved.v = AllFields )
    => /\ response.code = 200
       /\ response.body = [status |-> Str("found"),
                           game_state |-> Dict([fen |-> lastSaved.v["fen"],
                                                pgn |-> lastSaved.v["pgn"],
                                                history |-> lastSaved.v["history"]])]

\* a load after a save of a null position with a one-move history
C1_Witness ==
    /\ request.handler = "load_game" /\ request.method = "GET"
    /\ lastSaved # None
    /\ DOMAIN lastSaved.v = AllFields
    /\ lastSaved.v["fen"] = None
    /\ lastSaved.v["history"] = List(<<Str("a1b2")>>)
    /\ StatusOf(response) = "found"

\* C2: a body that is not JSON is answered by every POST endpoint with 400
\* and an 'error' field, and save_game then leaves the session as the last
\* successful save left it.
C2_MalformedJsonIs400 ==
    ( /\ request.method = "POST"
      /\ request.handler \in EngineHandlers \cup {"save_game"}
      /\ request.body.kind \in {"malformed", "undecodable"} )
    => /\ response.code = 400
       /\ HasError(response)
       /\ session = IF lastSaved = None THEN EmptyDict
                    ELSE save_store(EmptyDict, lastSaved.v)

\* C3 as stated: when the engine cannot be opened or the analysis fails, the
\* handler answers with a non-2xx error, never 'ok', and does not retry.
C3_BackendDownIsError ==
    (request.handler \in EngineHandlers /\ EngineFailed)
    => /\ response.code \notin 200..299
       /\ StatusOf(response) # "ok"
       /\ trace.eng.opens = 1

\* C3 as amended: when the engine cannot be opened or the analysis fails, the
\* engine is tried once only and analysed at most once, and the handler of a
\* valid position degrades instead of failing: ai_move answers 'ok' with a
\* legal move and a null score (400 'No legal move' when there is none),
\* coach_analysis 'fallback' with no evaluation, evaluate_position 'ok' with
\* a null evaluation, evaluate_move 'ok' with null score_cp and mate,
\* legal_moves 'ok' with no top_moves.
C3_BackendDownDegrades ==
    (request.handler \in EngineHandlers /\ EngineFailed)
    => LET fen == Field(request.body, "fen", Str(""))
           h == request.handler
       IN  /\ trace.eng.opens = 1
           /\ trace.eng.analysed <= 1
           /\ (fen.t = "str" /\ fen.v \in ValidFens) =>
                CASE h = "ai_move" ->
                       IF FenLegal(fen.v) = << >>
                       THEN response.code = 400 /\ StatusOf(response) = "error"
                       ELSE /\ response.code = 200 /\ StatusOf(response) = "ok"
                            /\ response.body.move.v \in SeqToSet(UcisOf(FenLegal(fen.v)))
                            /\ response.body.score_cp = None
                  [] h = "coach_analysis" ->
                       /\ response.code = 200 /\ StatusOf(response) = "fallback"
                       /\ response.body.evaluation = None
                  [] h = "evaluate_position" ->
                       /\ response.code = 200 /\ StatusOf(response) = "ok"
                       /\ response.body.evaluation = None
                  [] h = "evaluate_move" ->
                       /\ response.code = 200 /\ StatusOf(response) = "ok"
                       /\ response.body.score_cp = None
                       /\ response.body.mate = None
                  [] OTHER ->
                       /\ response.code = 200 /\ StatusOf(response) = "ok"
                       /\ response.body.top_moves = << >>

\* ai_move answered 'ok' although the engine could not be opened
C3_Witness ==
    /\ Posted("ai_move")
    /\ trace.eng.opens = 1 /\ ~trace.eng.opened
    /\ response.code = 200 /\ StatusOf(response) = "ok"

\* C4: a JSON object without 'fen' is answered by every handler that takes a
\* position with 400 and an 'error' field, and the engine is not started.
C4_MissingFenIs400 ==
    ( /\ request.handler \in EngineHandlers /\ request.method = "POST"
      /\ request.body.kind = "object"
      /\ "fen" \notin DOMAIN request.body.obj )
    => /\ response.code = 400
       /\ HasError(response)
       /\ trace.eng.opens = 0

\* C5: a 'fen' that is present, not empty and no position is answered by every
\* handler that takes a position with 400 and an 'error' field.
C5_BadFenIs400 ==
    ( /\ request.handler \in EngineHandlers /\ request.method = "POST"
      /\ request.body.kind = "object"
      /\ "fen" \in DOMAIN request.body.obj
      /\ Truthy(request.body.obj["fen"])
      /\ request.body.obj["fen"].v \notin ValidFens )
    => /\ response.code = 400
       /\ HasError(response)

\* the game_state a save of the body `saved` leaves: its fields, null for a
\* missing fen or pgn and the empty list for a missing history
StoredFields(saved) ==
    Dict([fen |-> IF "fen" \in DOMAIN saved THEN saved["fen"] ELSE None,
          pgn |-> IF "pgn" \in DOMAIN saved THEN saved["pgn"] ELSE None,
          history |-> IF "history" \in DOMAIN saved THEN saved["history"] ELSE List(<< >>)])

\* C6: a step changes the session only if it is a save_game that answers
\* 'saved', and every load_game answers with the fields of the most recent
\* successful save, or 'not_found' and null when there was none.
C6_OnlySaveWrites ==
    [][ /\ (session' # session) =>
              (request'.handler = "save_game" /\ StatusOf(response') = "saved")
        /\ (request'.handler = "load_game" /\ request'.method = "GET") =>
              response'.body =
                  IF lastSaved = None
                  THEN [status |-> Str("not_found"), game_state |-> None]
                  ELSE [status |-> Str("found"), game_state |-> StoredFields(lastSaved.v)]
      ]_vars

\* an engine-backed handler answered 200 in a session that holds a saved game
C6_Witness ==
    /\ request.handler \in EngineHandlers
    /\ response.code = 200
    /\ lastSaved # None
    /\ "game_state" \in DOMAIN session

\* no entry of the list scores better than an entry before it
BestFirst(moves) ==
    \A i, j \in 1..Len(moves) :
        (i < j /\ moves[i].score # None /\ moves[j].score # None)
            => moves[i].score.v >= moves[j].score.v

HasPv(info) == info.pv # << >>

\* the engine's lines that name a move, in the engine's order
LinesWithPv(infos) == SelectSeq(infos, HasPv)

\* C7 as stated: for every engine name, top_moves is ordered best first for
\* the side to move.
C7_AnalysisBestFirst ==
    (Posted("legal_moves") /\ StatusOf(response) = "ok")
    => BestFirst(response.body.top_moves)

\* C7 as amended: for every engine name but 'random', top_moves keeps the
\* engine's lines in the engine's order with the scores of the side to move,
\* so it is ordered best first as the engine ranks its lines best first; it
\* is empty when engine.quit raises after the analysis.
C7_EngineOrderKept ==
    ( /\ Posted("legal_moves") /\ StatusOf(response) = "ok"
      /\ Field(request.body, "engine", Str("stockfish")) # Str("random") )
    => /\ BestFirst(response.body.top_moves)
       /\ [i \in 1..Len(response.body.top_moves) |-> response.body.top_moves[i].uci.v]
            = IF env.quit_raises THEN << >>
              ELSE [i \in 1..Len(LinesWithPv(env.infos)) |->
                       uci(LinesWithPv(env.infos)[i].pv[1])]

\* two lines with different scores for Black to move
C7_Witness ==
    /\ Posted("legal_moves") /\ StatusOf(response) = "ok"
    /\ Field(request.body, "fen", None) = Str(FenBlack)
    /\ Field(request.body, "engine", Str("stockfish")) = Str("lc0")
    /\ Len(response.body.top_moves) = 2
    /\ response.body.top_moves[1].score # None
    /\ response.body.top_moves[2].score # None
    /\ response.body.top_moves[1].score.v > response.body.top_moves[2].score.v

\* C8: for a valid position legal_moves answers with exactly the legal moves
\* of the position, one entry each, whatever the engine answered, and every
\* iteration of its loop starts from the board of the requested position.
C8_LegalMovesComplete ==
    ( /\ Posted("legal_moves") /\ request.body.kind = "object"
      /\ "fen" \in DOMAIN request.body.obj
      /\ request.body.obj["fen"].v \in ValidFens )
    => LET fen == request.body.obj["fen"].v IN
       /\ response.code = 200
       /\ StatusOf(response) = "ok"
       /\ [i \in 1..Len(response.body.legal_moves) |-> response.body.legal_moves[i].uci.v]
             = UcisOf(FenLegal(fen))
       /\ Len(trace.boards) = Len(FenLegal(fen))
       /\ \A i \in 1..Len(trace.boards) :
             trace.boards[i] = [fen |-> fen, stack |-> << >>, turn |-> FenTurn(fen)]

\* three legal moves listed although the analysis raised
C8_Witness ==
    /\ Posted("legal_moves") /\ StatusOf(response) = "ok"
    /\ env.raises
    /\ response.body.top_moves = << >>
    /\ Len(response.body.legal_moves) = 3
    /\ Len(trace.boards) = 3

\* C9: with the engine open, a move that is not a legal move of the (valid)
\* position makes get_single_move_eval return (None, None), and evaluate_move
\* answers 200 'ok' with a null score_cp.
C9_UnknownMoveIsNull ==
    ( /\ Posted("evaluate_move") /\ request.body.kind = "object"
      /\ Field(request.body, "fen", None) \in {Str(f) : f \in ValidFens}
      /\ Truthy(Field(request.body, "move_uci", None))
      /\ trace.eng.opened
      /\ Field(request.body, "move_uci", None).v
            \notin SeqToSet(UcisOf(FenLegal(Field(request.body, "fen", None).v))) )
    => /\ trace.ret = [score_cp |-> None, mate |-> None]
       /\ response.code = 200
       /\ StatusOf(response) = "ok"
       /\ response.body.score_cp = None

\* a well-formed move that is not legal in the position, with the engine open
C9_Witness ==
    /\ Posted("evaluate_move")
    /\ Field(request.body, "fen", None) = Str(FenWhite)
    /\ Field(request.body, "move_uci", None) = Str(UciA1A8)
    /\ trace.eng.opened
    /\ StatusOf(response) = "ok"
    /\ response.body.score_cp = None

EmptyResult(h) ==
    CASE h = "ai_move" -> [move |-> None, score_cp |-> None]
      [] h = "evaluate_position" -> [best |-> None, score |-> None]
      [] h = "evaluate_move" -> [score_cp |-> None, mate |-> None]
      [] OTHER -> << >>

\* the request takes a path on which the helper, with the engine open, has
\* nothing to return: no valid position, no legal move to evaluate, an
\* analysis that raises or a quit that raises
HelperFails ==
    LET fen == Field(request.body, "fen", Str(""))
        move_uci == Field(request.body, "move_uci", None)
    IN  \/ ~(fen.t = "str" /\ fen.v \in ValidFens)
        \/ env.raises
        \/ env.quit_raises
        \/ /\ request.handler = "evaluate_move"
           /\ move_uci.v \notin SeqToSet(UcisOf(FenLegal(fen.v)))

\* C11: in every handler that uses a Stockfish helper, an engine that was
\* opened has had quit called on it when the helper returns, on every path,
\* and the helper returns its empty result on the failing paths; an engine
\* that could not be opened is never quit.
C11_EngineAlwaysQuit ==
    request.handler \in EngineHandlers
    => /\ trace.eng.opened => trace.eng.quits >= 1
       /\ ~trace.eng.opened => trace.eng.quits = 0
       /\ (trace.eng.opened /\ HelperFails) => trace.ret = EmptyResult(request.handler)

\* the analysis succeeded and quit raised: quit was called twice and the
\* result of the analysis is dropped
C11_Witness ==
    /\ Posted("evaluate_position")
    /\ trace.eng.opened /\ trace.eng.analysed = 1
    /\ env.quit_raises /\ ~env.raises
    /\ env.infos[1].pv # << >>
    /\ trace.eng.quits = 2
    /\ trace.ret = [best |-> None, score |-> None]

====
